---- MODULE Spec2Model ----
(***************************************************************************)
(* Model of the eBay MCP bridge (api/mcp.js and its sibling handlers):     *)
(* the bounded-concurrency executor mapWithConcurrency, the enriched       *)
(* search that fans detail fetches out through it, the OAuth token cache,  *)
(* the Browse query sanitizer and the JSON-RPC handler.                    *)
(***************************************************************************)
EXTENDS Integers, Sequences, FiniteSets, TLC

(***************************************************************************)
(* Bounds of the model.                                                    *)
(***************************************************************************)
MaxN == 3
MaxC == 3
MaxSummaries == 6

(* The concurrency cap searchEbayEnriched passes to mapWithConcurrency.    *)
DetailConcurrency == 5

NULL == [kind |-> "null"]
Unset == [kind |-> "unset"]

(* The JSON values of the upstream records: undefined (an absent           *)
(* property), null, a string (the sequence of its characters), a number    *)
(* (in hundredths), NaN, and an array.                                     *)
Undef == [kind |-> "undefined"]

Str(chars) == [kind |-> "string", v |-> chars]

Num(n) == [kind |-> "number", v |-> n]

NaN == [kind |-> "NaN"]

Arr(elems) == [kind |-> "array", v |-> elems]

Min(a, b) == IF a < b THEN a ELSE b

VARIABLES
    caller,     \* who called mapWithConcurrency: "none", "direct", "searchEbayEnriched"
    epc,        \* position of searchEbayEnriched: "idle", "search", "details", "returned", "threw"
    summaries,  \* search.itemSummaries of the current enriched search
    arr,        \* mapWithConcurrency: the input array
    concurrency,\* mapWithConcurrency: the concurrency argument
    idx,        \* mapWithConcurrency: the shared next index (0-based, as in the source)
    out,        \* mapWithConcurrency: the output array (Unset = a hole of new Array(n))
    wk,         \* the worker() coroutines: pc and the index i each one holds
    mpc,        \* the promise mapWithConcurrency returned: "none", "pending", "resolved", "rejected"
    started,    \* history: how many times fn was invoked for each index
    fnret,      \* history: what the fn call for each index settled with (Unset: not yet)
    outcomes,   \* history: what the operation behind each fn call did ("none": not yet)
    lastSettled,\* history: the index whose fn call settled last (-1: none yet)
    items,      \* what searchEbayEnriched returned
    sanRaw,     \* sanitizeBrowseQuery: the raw argument, a sequence of characters
    sanDone,    \* sanitizeBrowseQuery: whether the call has returned
    sanOut,     \* sanitizeBrowseQuery: what it returned
    tokImpl,    \* which token function the process runs: "getAccessToken" (api/mcp.js)
                \* or "getEbayAccessToken" (the refresh-token handler)
    env,        \* process.env: which of the credentials are set
    nowMs,      \* Date.now()
    tokenCache, \* api/mcp.js: let tokenCache = { accessToken, expiresAtMs }
    cachedToken,            \* refresh-token handler: let cachedToken
    cachedTokenExpiresAt,   \* refresh-token handler: let cachedTokenExpiresAt
    oauthRequests,          \* how many requests were sent to the OAuth endpoint
    issued,                 \* how many tokens the OAuth endpoint has issued
    tcall,      \* the token calls of the concurrent requests: position, locals, history
    req,        \* handler: the HTTP request it was invoked with
    hpc,        \* handler: "off", "received", "token", "search", "details", "done"
    pending,    \* handler: the parameters of the search request being prepared
    searchReqs, \* the search requests sent to the Browse API
    res,        \* handler: the HTTP response it sent
    normS,      \* normalization: the summary record
    normD,      \* normalization: the detail record (NULL: none)
    normDone,   \* normalization: whether the item was made
    normItem    \* normalization: the normalized item

mapVars == <<caller, epc, summaries, arr, concurrency, idx, out, wk, mpc, started, fnret,
             outcomes, lastSettled, items>>

sanVars == <<sanRaw, sanDone, sanOut>>

tokVars == <<tokImpl, env, nowMs, tokenCache, cachedToken, cachedTokenExpiresAt,
             oauthRequests, issued, tcall>>

hVars == <<req, hpc, pending, searchReqs, res>>

normVars == <<normS, normD, normDone, normItem>>

nonMapVars == <<sanVars, normVars, tokVars, hVars>>

nonSanVars == <<mapVars, normVars, tokVars, hVars>>

nonTokVars == <<mapVars, sanVars, normVars, hVars>>

nonNormVars == <<mapVars, sanVars, tokVars, hVars>>

vars == <<mapVars, sanVars, normVars, tokVars, hVars>>

(***************************************************************************)
(* Inputs.                                                                 *)
(***************************************************************************)
DirectValues == {"x", "y"}

DirectArrays == UNION {[1..n -> DirectValues] : n \in 0..MaxN}

(* Summary batches: n summaries with distinct itemIds; the same with the   *)
(* first or the last summary lacking an itemId (0 stands for a falsy       *)
(* itemId); the same with the last summary repeating the itemId of the     *)
(* first.                                                                  *)
(* The content of the k-th summary record of a search response. Nested     *)
(* properties read through ?. chains are flattened: imageUrl is            *)
(* image.imageUrl, priceValue is price.value, shippingCostValue is         *)
(* shippingOptions[0].shippingCost.value, and so on. The second summary    *)
(* is sparse.                                                              *)
SummaryRecord(k) ==
    IF k = 2
    THEN [itemId |-> k, legacyItemId |-> Undef, title |-> Str(<<"s", ToString(k)>>),
          itemWebUrl |-> Undef, imageUrl |-> Undef, thumbnailImageUrl |-> NULL,
          priceValue |-> Str(<<"1", "9", ".", "9", "9">>), shippingCostValue |-> Undef,
          sellerUsername |-> Undef, sellerFeedbackPercentage |-> Undef,
          itemEndDate |-> Undef, buyingOptions |-> Undef]
    ELSE [itemId |-> k, legacyItemId |-> Str(<<"L", ToString(k)>>),
          title |-> Str(<<"s", ToString(k)>>),
          itemWebUrl |-> Str(<<"https://s/", ToString(k)>>),
          imageUrl |-> Str(<<"https://s/img/", ToString(k)>>),
          thumbnailImageUrl |-> Str(<<"https://s/thumb/", ToString(k)>>),
          priceValue |-> Str(<<"5">>), shippingCostValue |-> Str(<<"0", ".", "5", "0">>),
          sellerUsername |-> Str(<<"s", "e", "l", "l">>),
          sellerFeedbackPercentage |-> Str(<<"9", "8", ".", "5">>),
          itemEndDate |-> Str(<<"2030">>),
          buyingOptions |-> Arr(<<"FIXED_PRICE">>)]

(* A summary is held by reference: its itemId and the number rec of the    *)
(* record whose content SummaryRecord gives.                               *)
DistinctBatch(n) == [k \in 1..n |-> [itemId |-> k, rec |-> k]]

(* The summary record a reference stands for.                              *)
SummaryFields(s) == [SummaryRecord(s.rec) EXCEPT !.itemId = s.itemId]

SummaryBatches ==
    UNION {
        {DistinctBatch(n)}
        \cup {[DistinctBatch(n) EXCEPT ![k].itemId = 0] : k \in {1, n} \cap (1..n)}
        \cup {[DistinctBatch(n) EXCEPT ![k].itemId = 1] : k \in {n} \cap (2..n)}
        : n \in 0..MaxSummaries}

(* The outcomes of one browseGetItem call: a detail record, a JSON body    *)
(* that is falsy (null), or a throw (token failure, non-ok response, bad   *)
(* JSON). The upstream answers with a null body for the items of           *)
(* NullBodyIds only.                                                       *)
NullBodyIds == {1}

DetailOutcomes(rid) ==
    {"detail", "throw"} \cup (IF rid \in NullBodyIds THEN {"nullbody"} ELSE {})

DirectOutcomes == {"value", "throw"}

(* The bodies of a successful search response: itemSummaries is an array,  *)
(* or it is missing or no array.                                           *)
SearchResponses ==
    {[isArray |-> TRUE, itemSummaries |-> b] : b \in SummaryBatches}
    \cup {[isArray |-> FALSE, itemSummaries |-> << >>]}

(***************************************************************************)
(* mapWithConcurrency (api/mcp.js 181-196).                                *)
(***************************************************************************)

(* Mutant: one worker per input element, ignoring the concurrency cap.     *)
WorkerCountUncapped(c, n) == n

(* Array.from({ length: Math.min(concurrency, arr.length) }, ...)          *)
WorkerCount(c, n) == Min(c, n)

(* Mutant: results appended in completion order instead of by index.       *)
StoreResultPush(o, i, r) ==
    LET k == CHOOSE j \in 1..Len(o) : o[j] = Unset /\ \A h \in 1..(j - 1) : o[h] # Unset
    IN [o EXCEPT ![k] = r]

(* out[i] = ...  (i is 0-based)                                            *)
StoreResult(o, i, r) == [o EXCEPT ![i + 1] = r]

(* The value the direct caller's fn returns for (arr[i], i).               *)
FnValue(x, i) == [kind |-> "value", x |-> x, i |-> i]

(* The detail record the upstream returns for an item id, held by          *)
(* reference.                                                              *)
DetailOf(rid) == [kind |-> "detailrecord", itemId |-> rid]

(* The content of the detail record of an item; the record of item 3 is    *)
(* sparse.                                                                 *)
DetailRecord(rid) ==
    [kind |-> "detailrecord", itemId |-> rid,
     legacyItemId |-> Str(<<"L", ToString(rid)>>),
     title |-> Str(<<"d", ToString(rid)>>),
     itemWebUrl |-> Str(<<"https://d/", ToString(rid)>>),
     imageUrl |-> IF rid = 3 THEN Undef ELSE Str(<<"https://d/img/", ToString(rid)>>),
     primaryImageUrl |-> Str(<<"https://d/primary/", ToString(rid)>>),
     priceValue |-> Str(<<"7", ".", "2", "5">>),
     shippingCostValue |-> IF rid = 3 THEN NULL ELSE Str(<<"1">>),
     sellerUsername |-> Str(<<"d", "s", "e", "l", "l">>),
     sellerFeedbackPercentage |-> Str(<<"1", "0", "0">>),
     itemEndDate |-> IF rid = 3 THEN Str(<<" ">>) ELSE Str(<<"2031">>)]

(* Mutant: the closure without its try/catch lets the throw escape.        *)
DetailClosureNoCatch(rid, outcome) ==
    IF outcome = "throw"
    THEN [kind |-> "throw"]
    ELSE [kind |-> "detail", ok |-> TRUE, rid |-> rid,
          d |-> IF outcome = "detail" THEN DetailOf(rid) ELSE NULL]

(* async (rid) => { try { d = await browseGetItem(rid); return {ok:true,   *)
(* rid, d} } catch (e) { return {ok:false, rid, error} } }  (211-218)      *)
DetailClosure(rid, outcome) ==
    IF outcome = "throw"
    THEN [kind |-> "detail", ok |-> FALSE, rid |-> rid, d |-> NULL]
    ELSE [kind |-> "detail", ok |-> TRUE, rid |-> rid,
          d |-> IF outcome = "detail" THEN DetailOf(rid) ELSE NULL]

(* What the fn call for arr[i] settles with under the given outcome.       *)
FnSettlesWith(who, x, i, outcome) ==
    IF who = "direct"
    THEN IF outcome = "throw" THEN [kind |-> "throw"] ELSE FnValue(x, i)
    ELSE DetailClosure(x, outcome)

OutcomesOf(who, x) == IF who = "direct" THEN DirectOutcomes ELSE DetailOutcomes(x)

(***************************************************************************)
(* sanitizeBrowseQuery (api/mcp.js 80-94). A string is the sequence of its *)
(* characters.                                                             *)
(***************************************************************************)
MaxPieces == 5

(* The pieces the raw queries are concatenated from.                       *)
Pieces ==
    {<<" ">>, <<"\t">>, <<"-">>, <<"a">>,
     <<"O", "R">>, <<"A", "N", "D">>, <<"N", "O", "T">>}

(* The concatenation of a sequence of pieces.                              *)
RECURSIVE Concats(_)
Concats(ps) ==
    IF Len(ps) = 0 THEN << >> ELSE ps[1] \o Concats(Tail(ps))

(* The raw queries of k pieces, each as the sequence of its pieces.        *)
RawInputs(k) == [1..k -> Pieces]

(* \s *)
IsWs(c) == c \in {" ", "\t"}

RECURSIVE TrimLeft(_)
TrimLeft(s) ==
    IF s # << >> /\ IsWs(Head(s)) THEN TrimLeft(Tail(s)) ELSE s

RECURSIVE TrimRight(_)
TrimRight(s) ==
    IF s # << >> /\ IsWs(s[Len(s)]) THEN TrimRight(SubSeq(s, 1, Len(s) - 1)) ELSE s

(* String.prototype.trim *)
Trim(s) == TrimRight(TrimLeft(s))

(* s.split(/\s+/g): the pieces between the maximal runs of whitespace.     *)
RECURSIVE SplitWs(_)
SplitWs(s) ==
    IF \A k \in 1..Len(s) : ~IsWs(s[k])
    THEN <<s>>
    ELSE LET p == CHOOSE k \in 1..Len(s) : IsWs(s[k]) /\ \A h \in 1..(k - 1) : ~IsWs(s[h])
         IN <<SubSeq(s, 1, p - 1)>> \o SplitWs(TrimLeft(SubSeq(s, p, Len(s))))

(* Mutant: the filter without its startsWith("-") test.                    *)
KeepTokenNoDash(t) ==
    /\ t # << >>
    /\ t \notin {<<"O", "R">>, <<"A", "N", "D">>, <<"N", "O", "T">>}

(* Mutant: the filter without its test for OR, AND and NOT.                *)
KeepTokenNoOperators(t) ==
    /\ t # << >>
    /\ ~(Len(t) >= 1 /\ t[1] = "-")

(* The filter callback (85-90).                                            *)
KeepToken(t) ==
    /\ t # << >>
    /\ ~(Len(t) >= 1 /\ t[1] = "-")
    /\ t \notin {<<"O", "R">>, <<"A", "N", "D">>, <<"N", "O", "T">>}

(* tokens.join(" ") *)
RECURSIVE JoinSp(_)
JoinSp(ts) ==
    IF ts = << >> THEN << >>
    ELSE IF Len(ts) = 1 THEN ts[1]
    ELSE ts[1] \o <<" ">> \o JoinSp(Tail(ts))

(* s.replace(/-\S+/g, ""): scanning from the left, a "-" followed by at    *)
(* least one non-whitespace character is removed together with the whole   *)
(* run of non-whitespace characters after it.                              *)
RECURSIVE StripExcl(_)
StripExcl(s) ==
    IF s = << >> THEN << >>
    ELSE IF Head(s) = "-" /\ Len(s) >= 2 /\ ~IsWs(s[2])
    THEN LET rest == Tail(s)
             stop == IF \A k \in 1..Len(rest) : ~IsWs(rest[k])
                     THEN Len(rest) + 1
                     ELSE CHOOSE k \in 1..Len(rest) :
                              IsWs(rest[k]) /\ \A h \in 1..(k - 1) : ~IsWs(rest[h])
         IN StripExcl(SubSeq(rest, stop, Len(rest)))
    ELSE <<Head(s)>> \o StripExcl(Tail(s))

(* Mutant: the last fallback is the trimmed input instead of "".           *)
sanitizeBrowseQueryRawFallback(raw) ==
    LET s == Trim(raw)
    IN IF s = << >> THEN << >>
       ELSE LET outp == Trim(JoinSp(SelectSeq(SplitWs(s), KeepToken)))
                stripped == Trim(StripExcl(s))
            IN IF outp # << >> THEN outp
               ELSE IF stripped # << >> THEN stripped
               ELSE s

(* return out || s.replace(/-\S+/g, "").trim() || "";                      *)
sanitizeBrowseQuery(raw) ==
    LET s == Trim(raw)
    IN IF s = << >> THEN << >>
       ELSE LET outp == Trim(JoinSp(SelectSeq(SplitWs(s), KeepToken)))
                stripped == Trim(StripExcl(s))
            IN IF outp # << >> THEN outp
               ELSE IF stripped # << >> THEN stripped
               ELSE << >>

SanIdle ==
    /\ sanRaw = << >>
    /\ sanDone = TRUE
    /\ sanOut = << >>

SanInit ==
    /\ \E k \in 0..MaxPieces : \E ps \in RawInputs(k) : sanRaw = Concats(ps)
    /\ sanDone = FALSE
    /\ sanOut = << >>

(* sanitizeBrowseQuery is called on the raw query and returns.             *)
SanitizeCall ==
    /\ ~sanDone
    /\ sanOut' = sanitizeBrowseQuery(sanRaw)
    /\ sanDone' = TRUE
    /\ UNCHANGED sanRaw
    /\ UNCHANGED nonSanVars

SanNext == SanitizeCall

(***************************************************************************)
(* searchEbayEnriched (api/mcp.js 203-278): what follows the detail fan-   *)
(* out.                                                                    *)
(***************************************************************************)

(* summaries.map((s) => s?.itemId).filter(Boolean); 0 stands for an absent *)
(* (falsy) itemId.                                                         *)
RestIds(batch) ==
    LET ids == [k \in 1..Len(batch) |-> batch[k].itemId]
    IN SelectSeq(ids, LAMBDA id : id # 0)

(* Array.isArray(search?.itemSummaries) ? search.itemSummaries : []        *)
SummariesOf(search) ==
    IF search.isArray THEN search.itemSummaries ELSE << >>

(* new Map(details.filter((x) => x.ok && x.d).map((x) => [x.rid, x.d])):   *)
(* the keys, and for each key the d of the last kept entry carrying it.    *)
DetailMapKeys(details) ==
    {details[k].rid : k \in {j \in 1..Len(details) : details[j].ok /\ details[j].d # NULL}}

(* Mutant: the lookup returns the record kept last, whatever its id.       *)
DetailMapGetLastKept(details, rid) ==
    LET kept == {j \in 1..Len(details) : details[j].ok /\ details[j].d # NULL}
    IN IF kept = {} THEN NULL
       ELSE details[CHOOSE j \in kept : \A h \in kept : h <= j].d

DetailMapGet(details, rid) ==
    LET kept == {j \in 1..Len(details) :
                    details[j].ok /\ details[j].d # NULL /\ details[j].rid = rid}
    IN IF kept = {} THEN NULL
       ELSE details[CHOOSE j \in kept : \A h \in kept : h <= j].d

(* Number(x) of a trimmed string: empty is 0; an optional "-", digits and  *)
(* an optional "." with digits (at least one digit in all) is that number, *)
(* kept in hundredths (the inputs carry at most two decimals); anything    *)
(* else is NaN.                                                            *)
IsDigit(c) == c \in {"0", "1", "2", "3", "4", "5", "6", "7", "8", "9"}

DigitVal(c) ==
    CASE c = "0" -> 0 [] c = "1" -> 1 [] c = "2" -> 2 [] c = "3" -> 3 [] c = "4" -> 4
      [] c = "5" -> 5 [] c = "6" -> 6 [] c = "7" -> 7 [] c = "8" -> 8 [] c = "9" -> 9

RECURSIVE DigitsVal(_)
DigitsVal(ds) ==
    IF ds = << >> THEN 0 ELSE DigitsVal(SubSeq(ds, 1, Len(ds) - 1)) * 10 + DigitVal(ds[Len(ds)])

ParseNumber(t) ==
    IF t = << >> THEN Num(0)
    ELSE LET neg == Head(t) = "-"
             body == IF neg THEN Tail(t) ELSE t
             dots == {k \in 1..Len(body) : body[k] = "."}
             p == IF dots = {} THEN Len(body) + 1 ELSE CHOOSE k \in dots : \A h \in dots : k <= h
             ip == SubSeq(body, 1, p - 1)
             fp == SubSeq(body, p + 1, Len(body))
             wellFormed == /\ \A k \in 1..Len(ip) : IsDigit(ip[k])
                           /\ \A k \in 1..Len(fp) : IsDigit(fp[k])
                           /\ Len(ip) + Len(fp) >= 1
             frac == IF ~wellFormed \/ fp = << >> THEN 0
                     ELSE IF Len(fp) = 1 THEN DigitVal(fp[1]) * 10
                     ELSE DigitVal(fp[1]) * 10 + DigitVal(fp[2])
         IN IF ~wellFormed THEN NaN
            ELSE Num((IF neg THEN -1 ELSE 1) * (DigitsVal(ip) * 100 + frac))

(* Number(x)                                                               *)
NumberOf(x) ==
    IF x = NULL THEN Num(0)
    ELSE IF x.kind = "number" THEN x
    ELSE IF x.kind = "string" THEN ParseNumber(Trim(x.v))
    ELSE NaN

(* toNum(x, fallback) on a JSON value (56-59).                             *)
toNumValue(x, fallback) ==
    LET n == NumberOf(x)
    IN IF n.kind = "number" THEN n ELSE fallback

(* Whether a value is truthy.                                              *)
Truthy(x) == x \notin {Undef, NULL, NaN, Num(0), Str(<< >>)}

(* a || b                                                                  *)
OrElse(a, b) == IF Truthy(a) THEN a ELSE b

(* Mutant: pickFirst without its test for blank strings.                   *)
PickSkipsNullOnly(v) == v \in {Undef, NULL}

(* What pickFirst passes over: null, undefined and blank strings (62-65).  *)
PickSkips(v) == v \in {Undef, NULL} \/ (v.kind = "string" /\ Trim(v.v) = << >>)

(* Mutant: pickFirst without its final return null.                       *)
pickFirstOrUndefined(vals) ==
    LET ok == {k \in 1..Len(vals) : ~PickSkips(vals[k])}
    IN IF ok = {} THEN Undef ELSE vals[CHOOSE k \in ok : \A h \in ok : k <= h]

(* pickFirst(...vals) (61-68): the first value that is neither null nor    *)
(* undefined nor a blank string, else null.                                *)
pickFirst(vals) ==
    LET ok == {k \in 1..Len(vals) : ~PickSkips(vals[k])}
    IN IF ok = {} THEN NULL ELSE vals[CHOOSE k \in ok : \A h \in ok : k <= h]

(* encodeURIComponent on the characters the titles are made of: a blank    *)
(* becomes %20, letters and digits stay.                                   *)
encodeURIComponent(chars) ==
    [k \in 1..Len(chars) |->
        IF chars[k] = " " THEN "%20" ELSE IF chars[k] = "\t" THEN "%09" ELSE chars[k]]

(* d?.f: undefined when there is no detail record.                         *)
DetailField(d, f) == IF d.kind = "detailrecord" THEN d[f] ELSE Undef

(* The item id as it appears in an output item.                            *)
Id(k) == [kind |-> "id", v |-> k]

(* toNum(a, NaN) || toNum(b, NaN) || dflt  (246-252, 260-263)              *)
NumChain(a, b, dflt) ==
    OrElse(toNumValue(a, NaN), OrElse(toNumValue(b, NaN), dflt))

(* The body of summaries.map((s) => {...}) (224-277) for a summary s and   *)
(* the detail record d the map holds for it (NULL: none).                  *)
Normalize(s, d) ==
    LET rid == IF s.itemId # 0 THEN Id(s.itemId) ELSE NULL
        legacyId == pickFirst(<<DetailField(d, "legacyItemId"), s.legacyItemId, NULL>>)
        title == pickFirst(<<DetailField(d, "title"), s.title,
                             Str(<<"Untitled", " ", "listing">>)>>)
        itemWebUrl ==
            pickFirst(<<DetailField(d, "itemWebUrl"),
                        s.itemWebUrl,
                        IF Truthy(legacyId)
                        THEN Str(<<"https://www.ebay.com/itm/">> \o legacyId.v)
                        ELSE NULL,
                        Str(<<"https://www.ebay.com/sch/i.html?_nkw=">>
                            \o encodeURIComponent(title.v))>>)
        imageUrl == pickFirst(<<DetailField(d, "imageUrl"),
                                DetailField(d, "primaryImageUrl"),
                                s.imageUrl,
                                s.thumbnailImageUrl,
                                NULL>>)
        price == NumChain(DetailField(d, "priceValue"), s.priceValue, Num(0))
        shipping == NumChain(DetailField(d, "shippingCostValue"), s.shippingCostValue,
                             Num(0))
        seller == pickFirst(<<DetailField(d, "sellerUsername"), s.sellerUsername,
                              Str(<<"eBay Seller">>)>>)
        sellerFeedbackPercent ==
            NumChain(DetailField(d, "sellerFeedbackPercentage"),
                     s.sellerFeedbackPercentage, Num(9900))
    IN [itemId |-> OrElse(legacyId, rid),
        title |-> title,
        price |-> price,
        shipping |-> shipping,
        seller |-> seller,
        sellerFeedbackPercent |-> sellerFeedbackPercent,
        itemWebUrl |-> itemWebUrl,
        image |-> OrElse(imageUrl, NULL),
        itemEndDate |-> pickFirst(<<DetailField(d, "itemEndDate"), s.itemEndDate, NULL>>),
        buyingOptions |-> IF s.buyingOptions.kind = "array"
                          THEN s.buyingOptions ELSE Arr(<< >>)]

(* The merge of one summary with its detail (224-226): rid is the          *)
(* summary's id and d what detailMap holds for it. The merged item is held *)
(* by reference, as the summary and the detail record it was made from.    *)
MergeOne(s, details) ==
    LET rid == s.itemId
        d == IF rid # 0 THEN DetailMapGet(details, rid) ELSE NULL
    IN [s |-> s, d |-> d]

(* Normalize tabulated over the records of the model: the item for the     *)
(* summary record r carrying the itemId i, with the detail record of item  *)
(* j (0: with none).                                                       *)
MergedItem ==
    [r \in 1..MaxSummaries |-> [i \in 0..MaxSummaries |-> [j \in 0..MaxSummaries |->
        Normalize(SummaryFields([itemId |-> i, rec |-> r]),
                  IF j # 0 THEN DetailRecord(j) ELSE NULL)]]]

(* The normalized item a merged reference stands for (227-277).            *)
ItemOf(m) ==
    MergedItem[m.s.rec][m.s.itemId][IF m.d = NULL THEN 0 ELSE m.d.itemId]

(* Mutant: the merge over the summaries that carry an itemId only.         *)
MergeWithIdOnly(batch, details) ==
    LET withId == SelectSeq(batch, LAMBDA x : x.itemId # 0)
    IN [k \in 1..Len(withId) |-> MergeOne(withId[k], details)]

(* summaries.map((s) => {...})  (224)                                      *)
Merge(batch, details) == [k \in 1..Len(batch) |-> MergeOne(batch[k], details)]

(* The records the normalization is applied to. A summary or detail with   *)
(* no property set, and the values a property takes.                       *)
BareSummary(i) ==
    [itemId |-> i, legacyItemId |-> Undef, title |-> Undef, itemWebUrl |-> Undef,
     imageUrl |-> Undef, thumbnailImageUrl |-> Undef, priceValue |-> Undef,
     shippingCostValue |-> Undef, sellerUsername |-> Undef,
     sellerFeedbackPercentage |-> Undef, itemEndDate |-> Undef, buyingOptions |-> Undef]

BareDetail ==
    [kind |-> "detailrecord", itemId |-> 1, legacyItemId |-> Undef, title |-> Undef,
     itemWebUrl |-> Undef, imageUrl |-> Undef, primaryImageUrl |-> Undef,
     priceValue |-> Undef, shippingCostValue |-> Undef, sellerUsername |-> Undef,
     sellerFeedbackPercentage |-> Undef, itemEndDate |-> Undef]

TextValues == {Undef, NULL, Str(<< >>), Str(<<" ">>), Str(<<"x">>)}

DetailTextValues == {Undef, Str(<<" ">>), Str(<<"d">>)}

SummaryTextValues == {NULL, Str(<< >>), Str(<<"s", " ", "t">>)}

NumericValues ==
    {Undef, NULL, Str(<< >>), Str(<<"a", "b", "c">>), Str(<<"0", ".", "0", "0">>),
     Str(<<"1", "9", ".", "9", "9">>), Str(<<" ", "4", ".", "5">>), Str(<<"-", "5">>),
     Num(0), Num(250)}

BuyingOptionsValues ==
    {Undef, NULL, Str(<<"x">>), Arr(<< >>), Arr(<<"AUCTION", "BEST_OFFER">>)}

(* The summaries and details that differ from a full or a bare record in   *)
(* the properties one output field is made from.                           *)
NumericInputs(f) ==
    {[s |-> [b EXCEPT ![f] = sv], d |-> [DetailRecord(1) EXCEPT ![f] = dv]] :
        b \in {BareSummary(1), SummaryRecord(1)}, sv \in NumericValues, dv \in NumericValues}
    \cup {[s |-> [BareSummary(1) EXCEPT ![f] = sv], d |-> NULL] : sv \in NumericValues}

TextInputs(f) ==
    {[s |-> [b EXCEPT ![f] = sv], d |-> [DetailRecord(1) EXCEPT ![f] = dv]] :
        b \in {BareSummary(1), SummaryRecord(1)}, sv \in TextValues, dv \in TextValues}
    \cup {[s |-> [BareSummary(1) EXCEPT ![f] = sv], d |-> NULL] : sv \in TextValues}

ImageInputs ==
    {[s |-> [BareSummary(1) EXCEPT !.imageUrl = si, !.thumbnailImageUrl = st],
      d |-> [BareDetail EXCEPT !.imageUrl = di, !.primaryImageUrl = dp]] :
        si \in SummaryTextValues, st \in SummaryTextValues,
        di \in DetailTextValues, dp \in DetailTextValues}

UrlInputs ==
    {[s |-> [BareSummary(i) EXCEPT !.legacyItemId = sl, !.title = st, !.itemWebUrl = su],
      d |-> [BareDetail EXCEPT !.legacyItemId = dl, !.title = dt, !.itemWebUrl = du]] :
        i \in {0, 1},
        sl \in SummaryTextValues, st \in SummaryTextValues, su \in SummaryTextValues,
        dl \in DetailTextValues, dt \in DetailTextValues, du \in DetailTextValues}

BuyingOptionsInputs ==
    {[s |-> [b EXCEPT !.buyingOptions = v], d |-> d] :
        b \in {BareSummary(0), SummaryRecord(1)}, v \in BuyingOptionsValues,
        d \in {NULL, BareDetail, DetailRecord(1)}}

NormInputs ==
    NumericInputs("priceValue") \cup NumericInputs("shippingCostValue")
    \cup NumericInputs("sellerFeedbackPercentage")
    \cup TextInputs("sellerUsername") \cup TextInputs("itemEndDate")
    \cup ImageInputs \cup UrlInputs \cup BuyingOptionsInputs

NormIdle ==
    /\ normS = BareSummary(0)
    /\ normD = NULL
    /\ normDone = TRUE
    /\ normItem = NULL

NormInit ==
    /\ \E in \in NormInputs : normS = in.s /\ normD = in.d
    /\ normDone = FALSE
    /\ normItem = NULL

(* The map callback makes the item of one summary (224-277).               *)
NormalizeCall ==
    /\ ~normDone
    /\ normItem' = Normalize(normS, normD)
    /\ normDone' = TRUE
    /\ UNCHANGED <<normS, normD>>
    /\ UNCHANGED nonNormVars

NormNext == NormalizeCall

(***************************************************************************)
(* The OAuth token cache: getAccessToken (api/mcp.js 99-137) and           *)
(* getEbayAccessToken (the refresh-token handler, 27-81). Times are in     *)
(* milliseconds; token 0 stands for null / undefined.                      *)
(***************************************************************************)
MaxCallers == 2
MaxRequests == 2
MaxTicks == 5

(* tokenCache.expiresAtMs - 30000 > now                                    *)
SafetyMarginMs == 30000

(* cachedTokenExpiresAt - now > 60_000                                     *)
SafetyBufferMs == 60000

(* toNum(data.expires_in, 7200)                                            *)
DefaultExpiresInSec == 7200

(* How far the clock moves in one step.                                    *)
TickSteps == {15000}

Callers == 1..MaxCallers

(* The expires_in values (seconds) of the OAuth responses; -1 stands for   *)
(* an absent expires_in.                                                   *)
ExpiresInValues == {-1, 45, 90}

(* The OAuth responses: a non-success status; a success whose body is not  *)
(* JSON; a success whose JSON has no access_token; a success with one.     *)
OAuthResponses ==
    {[ok |-> FALSE, json |-> TRUE, hasToken |-> FALSE, expiresIn |-> -1],
     [ok |-> TRUE, json |-> FALSE, hasToken |-> FALSE, expiresIn |-> -1]}
    \cup {[ok |-> TRUE, json |-> TRUE, hasToken |-> h, expiresIn |-> e] :
             h \in BOOLEAN, e \in ExpiresInValues}

(* A token call that has not started, or whose result was consumed. While *)
(* the call awaits the OAuth response `now` is its local const now; once   *)
(* it has returned, ret is the token it returned and cached tells whether  *)
(* it came from the cache without a request; resp is the kind of OAuth     *)
(* response the call received, if any.                                     *)
IdleCall == [pc |-> "idle", now |-> 0, ret |-> 0, cached |-> FALSE, resp |-> "none"]

(* The kind of an OAuth response.                                          *)
RespKind(resp) ==
    IF ~resp.ok THEN "notok"
    ELSE IF ~resp.json THEN "badjson"
    ELSE IF ~resp.hasToken THEN "notoken"
    ELSE "token"

(* toNum(x, fallback): Number(undefined) is NaN, so the fallback.          *)
toNum(x, fallback) == IF x = -1 THEN fallback ELSE x

(* Mutant: the cache check without the safety margin.                      *)
CacheValidNoMargin(cache, now) ==
    cache.accessToken # 0 /\ cache.expiresAtMs > now

(* tokenCache.accessToken && tokenCache.expiresAtMs - 30000 > now  (101)   *)
CacheValid(cache, now) ==
    cache.accessToken # 0 /\ cache.expiresAtMs - SafetyMarginMs > now

(* cachedToken && cachedTokenExpiresAt - now > 60_000  (refresh 30)        *)
CachedTokenValid(tok, exp, now) ==
    tok # 0 /\ exp - now > SafetyBufferMs

(* !clientId || !clientSecret  (107)                                       *)
MissingCredentials(e) == ~e.clientId \/ ~e.clientSecret

(* !clientId || !clientSecret || !refreshToken  (refresh 36)               *)
MissingRefreshCredentials(e) == ~e.clientId \/ ~e.clientSecret \/ ~e.refreshToken

TokIdle ==
    /\ tokImpl = "none"
    /\ env = [clientId |-> TRUE, clientSecret |-> TRUE, refreshToken |-> TRUE]
    /\ nowMs = 0
    /\ tokenCache = [accessToken |-> 0, expiresAtMs |-> 0]
    /\ cachedToken = 0
    /\ cachedTokenExpiresAt = 0
    /\ oauthRequests = 0
    /\ issued = 0
    /\ tcall = [c \in Callers |-> IdleCall]

TokInit ==
    /\ tokImpl \in {"getAccessToken", "getEbayAccessToken"}
    /\ env \in [clientId : BOOLEAN, clientSecret : BOOLEAN, refreshToken : BOOLEAN]
    /\ nowMs = 0
    /\ tokenCache = [accessToken |-> 0, expiresAtMs |-> 0]
    /\ cachedToken = 0
    /\ cachedTokenExpiresAt = 0
    /\ oauthRequests = 0
    /\ issued = 0
    /\ tcall = [c \in Callers |-> IdleCall]

(* A process that runs the static handler, which has no token function:    *)
(* the environment is whatever it is, nothing is cached.                   *)
StaticTokInit ==
    /\ tokImpl = "none"
    /\ env \in [clientId : BOOLEAN, clientSecret : BOOLEAN, refreshToken : BOOLEAN]
    /\ nowMs = 0
    /\ tokenCache = [accessToken |-> 0, expiresAtMs |-> 0]
    /\ cachedToken = 0
    /\ cachedTokenExpiresAt = 0
    /\ oauthRequests = 0
    /\ issued = 0
    /\ tcall = [c \in Callers |-> IdleCall]

(* Time passes.                                                            *)
Tick ==
    /\ tokImpl # "none"
    /\ \E d \in TickSteps :
          /\ nowMs + d <= MaxTicks * 15000
          /\ nowMs' = nowMs + d
    /\ UNCHANGED <<tokImpl, env, tokenCache, cachedToken, cachedTokenExpiresAt,
                   oauthRequests, issued, tcall>>
    /\ UNCHANGED nonTokVars

(* getAccessToken is called (99-126): it returns the cached token, or      *)
(* throws on missing credentials, or sends the OAuth request and awaits.   *)
GetAccessTokenBegin(c) ==
    /\ tokImpl = "getAccessToken"
    /\ tcall[c].pc = "idle"
    /\ LET now == nowMs
       IN IF CacheValid(tokenCache, now)
          THEN /\ tcall' = [tcall EXCEPT ![c] =
                              [IdleCall EXCEPT !.pc = "returned",
                                               !.ret = tokenCache.accessToken,
                                               !.cached = TRUE]]
               /\ UNCHANGED oauthRequests
          ELSE IF MissingCredentials(env)
          THEN /\ tcall' = [tcall EXCEPT ![c] = [IdleCall EXCEPT !.pc = "threw"]]
               /\ UNCHANGED oauthRequests
          ELSE /\ oauthRequests < MaxRequests
               /\ oauthRequests' = oauthRequests + 1
               /\ tcall' = [tcall EXCEPT ![c] =
                              [IdleCall EXCEPT !.pc = "fetch", !.now = now]]
    /\ UNCHANGED <<tokImpl, env, nowMs, tokenCache, cachedToken, cachedTokenExpiresAt,
                   issued>>

(* A caller other than the handler calls getAccessToken.                   *)
GetAccessTokenCall(c) ==
    /\ GetAccessTokenBegin(c)
    /\ UNCHANGED nonTokVars

(* Mutant: a failed refresh empties the cache.                             *)
GetAccessTokenSettleClearing(c) ==
    /\ tokImpl = "getAccessToken"
    /\ tcall[c].pc = "fetch"
    /\ \E resp \in OAuthResponses :
          IF ~resp.ok \/ ~resp.json
          THEN /\ tcall' = [tcall EXCEPT ![c] =
                              [IdleCall EXCEPT !.pc = "threw", !.resp = RespKind(resp)]]
               /\ tokenCache' = [accessToken |-> 0, expiresAtMs |-> 0]
               /\ UNCHANGED issued
          ELSE LET tok == IF resp.hasToken THEN issued + 1 ELSE 0
                   exp == tcall[c].now + toNum(resp.expiresIn, DefaultExpiresInSec) * 1000
               IN /\ tokenCache' = [accessToken |-> tok, expiresAtMs |-> exp]
                  /\ issued' = IF resp.hasToken THEN issued + 1 ELSE issued
                  /\ tcall' = [tcall EXCEPT ![c] =
                                 [IdleCall EXCEPT !.pc = "returned", !.ret = tok,
                                                  !.resp = RespKind(resp)]]
    /\ UNCHANGED <<tokImpl, env, nowMs, cachedToken, cachedTokenExpiresAt, oauthRequests>>
    /\ UNCHANGED nonTokVars

(* The OAuth response of a getAccessToken call arrives (128-136): a non-ok *)
(* status or a body that is not JSON throws; otherwise the cache is        *)
(* overwritten from the body and the cached token is returned. The         *)
(* endpoint numbers the tokens it issues.                                  *)
GetAccessTokenSettle(c) ==
    /\ tokImpl = "getAccessToken"
    /\ tcall[c].pc = "fetch"
    /\ \E resp \in OAuthResponses :
          IF ~resp.ok \/ ~resp.json
          THEN /\ tcall' = [tcall EXCEPT ![c] =
                              [IdleCall EXCEPT !.pc = "threw", !.resp = RespKind(resp)]]
               /\ UNCHANGED <<tokenCache, issued>>
          ELSE LET tok == IF resp.hasToken THEN issued + 1 ELSE 0
                   exp == tcall[c].now + toNum(resp.expiresIn, DefaultExpiresInSec) * 1000
               IN /\ tokenCache' = [accessToken |-> tok, expiresAtMs |-> exp]
                  /\ issued' = IF resp.hasToken THEN issued + 1 ELSE issued
                  /\ tcall' = [tcall EXCEPT ![c] =
                                 [IdleCall EXCEPT !.pc = "returned", !.ret = tok,
                                                  !.resp = RespKind(resp)]]
    /\ UNCHANGED <<tokImpl, env, nowMs, cachedToken, cachedTokenExpiresAt, oauthRequests>>
    /\ UNCHANGED nonTokVars

(* getEbayAccessToken is called (refresh 27-60).                           *)
GetEbayAccessTokenBegin(c) ==
    /\ tokImpl = "getEbayAccessToken"
    /\ tcall[c].pc = "idle"
    /\ LET now == nowMs
       IN IF CachedTokenValid(cachedToken, cachedTokenExpiresAt, now)
          THEN /\ tcall' = [tcall EXCEPT ![c] =
                              [IdleCall EXCEPT !.pc = "returned",
                                               !.ret = cachedToken,
                                               !.cached = TRUE]]
               /\ UNCHANGED oauthRequests
          ELSE IF MissingRefreshCredentials(env)
          THEN /\ tcall' = [tcall EXCEPT ![c] = [IdleCall EXCEPT !.pc = "threw"]]
               /\ UNCHANGED oauthRequests
          ELSE /\ oauthRequests < MaxRequests
               /\ oauthRequests' = oauthRequests + 1
               /\ tcall' = [tcall EXCEPT ![c] =
                              [IdleCall EXCEPT !.pc = "fetch", !.now = now]]
    /\ UNCHANGED <<tokImpl, env, nowMs, tokenCache, cachedToken, cachedTokenExpiresAt,
                   issued>>

(* A caller other than the handler calls getEbayAccessToken.               *)
GetEbayAccessTokenCall(c) ==
    /\ GetEbayAccessTokenBegin(c)
    /\ UNCHANGED nonTokVars

(* The OAuth response of a getEbayAccessToken call arrives (refresh        *)
(* 62-80): json is null when the body does not parse; a non-ok status, a   *)
(* missing token or a missing / zero expires_in throws; otherwise the      *)
(* cache is overwritten, the expiry counted from the present Date.now().   *)
GetEbayAccessTokenSettle(c) ==
    /\ tokImpl = "getEbayAccessToken"
    /\ tcall[c].pc = "fetch"
    /\ \E resp \in OAuthResponses :
          LET hasToken == resp.json /\ resp.hasToken
              expiresInSec == IF resp.json /\ resp.expiresIn # -1 THEN resp.expiresIn ELSE 0
          IN IF ~resp.ok \/ ~hasToken \/ expiresInSec = 0
             THEN /\ tcall' = [tcall EXCEPT ![c] =
                                 [IdleCall EXCEPT !.pc = "threw", !.resp = RespKind(resp)]]
                  /\ UNCHANGED <<cachedToken, cachedTokenExpiresAt>>
                  /\ issued' = IF resp.ok /\ hasToken THEN issued + 1 ELSE issued
             ELSE /\ cachedToken' = issued + 1
                  /\ cachedTokenExpiresAt' = nowMs + expiresInSec * 1000
                  /\ issued' = issued + 1
                  /\ tcall' = [tcall EXCEPT ![c] =
                                 [IdleCall EXCEPT !.pc = "returned", !.ret = issued + 1,
                                                  !.resp = RespKind(resp)]]
    /\ UNCHANGED <<tokImpl, env, nowMs, tokenCache, oauthRequests>>
    /\ UNCHANGED nonTokVars

(* The caller of a finished token call takes its result (the token or the  *)
(* error) and the call is over.                                            *)
TokenCallEnds(c) ==
    /\ tokImpl # "none"
    /\ tcall[c].pc \in {"returned", "threw"}
    /\ tcall' = [tcall EXCEPT ![c] = IdleCall]
    /\ UNCHANGED <<tokImpl, env, nowMs, tokenCache, cachedToken, cachedTokenExpiresAt,
                   oauthRequests, issued>>
    /\ UNCHANGED nonTokVars

TokNext ==
    \/ Tick
    \/ \E c \in Callers : GetAccessTokenCall(c)
    \/ \E c \in Callers : GetAccessTokenSettle(c)
    \/ \E c \in Callers : GetEbayAccessTokenCall(c)
    \/ \E c \in Callers : GetEbayAccessTokenSettle(c)
    \/ \E c \in Callers : TokenCallEnds(c)

(***************************************************************************)
(* Actions.                                                                *)
(***************************************************************************)
MapInit ==
    /\ caller = "none"
    /\ epc = "idle"
    /\ summaries = << >>
    /\ arr = << >>
    /\ concurrency = 0
    /\ idx = 0
    /\ out = << >>
    /\ wk = << >>
    /\ mpc = "none"
    /\ started = << >>
    /\ fnret = << >>
    /\ outcomes = << >>
    /\ lastSettled = -1
    /\ items = << >>

(* Mutant: every worker takes the index the first one took (const i = idx  *)
(* without the increment in the first round).                              *)
MapStartSameIndex(a, c) ==
    LET n == Len(a)
        nw == WorkerCount(c, n)
    IN /\ arr' = a
       /\ concurrency' = c
       /\ out' = [k \in 1..n |-> Unset]
       /\ wk' = [w \in 1..nw |-> [pc |-> "await", i |-> 0]]
       /\ idx' = Min(1, nw)
       /\ started' = [k \in 1..n |-> IF k = 1 THEN nw ELSE 0]
       /\ fnret' = [k \in 1..n |-> Unset]
       /\ outcomes' = [k \in 1..n |-> "none"]
       /\ lastSettled' = -1
       /\ mpc' = IF nw = 0 THEN "resolved" ELSE "pending"

(* The synchronous part of a mapWithConcurrency(a, c, fn) call: the output *)
(* array is allocated and every worker() runs up to its first await, each  *)
(* claiming the next index and invoking fn on it.                          *)
MapStart(a, c) ==
    LET n == Len(a)
        nw == WorkerCount(c, n)
    IN /\ arr' = a
       /\ concurrency' = c
       /\ out' = [k \in 1..n |-> Unset]
       /\ wk' = [w \in 1..nw |-> [pc |-> "await", i |-> w - 1]]
       /\ idx' = nw
       /\ started' = [k \in 1..n |-> IF k <= nw THEN 1 ELSE 0]
       /\ fnret' = [k \in 1..n |-> Unset]
       /\ outcomes' = [k \in 1..n |-> "none"]
       /\ lastSettled' = -1
       /\ mpc' = IF nw = 0 THEN "resolved" ELSE "pending"

(* A caller other than the pipeline invokes mapWithConcurrency.            *)
CallDirect ==
    /\ caller = "none"
    /\ epc = "idle"
    /\ \E a \in DirectArrays, c \in 1..MaxC : MapStart(a, c)
    /\ caller' = "direct"
    /\ UNCHANGED <<epc, summaries, items>>
    /\ UNCHANGED nonMapVars

(* searchEbayEnriched is called and awaits browseSearch (204).             *)
CallSearchEbayEnriched ==
    /\ caller = "none"
    /\ epc = "idle"
    /\ epc' = "search"
    /\ UNCHANGED <<caller, summaries, arr, concurrency, idx, out, wk, mpc, started, fnret,
                   outcomes, lastSettled, items>>
    /\ UNCHANGED nonMapVars

(* browseSearch throws: searchEbayEnriched rejects before any fan-out.     *)
SearchThrows ==
    /\ hpc = "off"
    /\ epc = "search"
    /\ epc' = "threw"
    /\ UNCHANGED <<caller, summaries, arr, concurrency, idx, out, wk, mpc, started, fnret,
                   outcomes, lastSettled, items>>
    /\ UNCHANGED nonMapVars

(* browseSearch resolves with the body `search`: the ids are collected and *)
(* the fan-out starts (205-211); with no id to fetch the merge and the     *)
(* return follow at once.                                                  *)
EnrichedFanOut(search) ==
    /\ epc = "search"
    /\ LET batch == SummariesOf(search)
           rest == RestIds(batch)
       IN /\ summaries' = batch
          /\ MapStart(rest, DetailConcurrency)
          /\ IF WorkerCount(DetailConcurrency, Len(rest)) = 0
             THEN epc' = "returned" /\ items' = Merge(batch, << >>)
             ELSE epc' = "details" /\ items' = items
    /\ caller' = "searchEbayEnriched"

SearchResolves ==
    /\ hpc = "off"
    /\ \E search \in SearchResponses : EnrichedFanOut(search)
    /\ UNCHANGED nonMapVars

(* The fn call worker w awaits settles (188). On a value the worker stores *)
(* it at its own index and loops: it claims the next index and calls fn,   *)
(* or it ends; when the last worker ends Promise.all resolves, the promise *)
(* of mapWithConcurrency resolves with out, and the enriched search merges *)
(* and returns. On a throw the worker rejects and so does Promise.all,     *)
(* while the other workers go on.                                          *)
FnSettle(w) ==
    /\ w \in DOMAIN wk
    /\ wk[w].pc = "await"
    /\ \E outcome \in OutcomesOf(caller, arr[wk[w].i + 1]) :
          LET i == wk[w].i
              r == FnSettlesWith(caller, arr[i + 1], i, outcome)
          IN /\ outcomes' = [outcomes EXCEPT ![i + 1] = outcome]
             /\ fnret' = [fnret EXCEPT ![i + 1] = r]
             /\ lastSettled' = i
             /\ IF r.kind = "throw"
                THEN /\ wk' = [wk EXCEPT ![w].pc = "rejected"]
                     /\ mpc' = IF mpc = "pending" THEN "rejected" ELSE mpc
                     /\ epc' = IF epc = "details" THEN "threw" ELSE epc
                     /\ UNCHANGED <<idx, out, started, items>>
                ELSE LET o2 == StoreResult(out, i, r)
                         more == idx < Len(arr)
                         wk2 == IF more
                                THEN [wk EXCEPT ![w] = [pc |-> "await", i |-> idx]]
                                ELSE [wk EXCEPT ![w].pc = "done"]
                         alldone == \A v \in DOMAIN wk2 : wk2[v].pc = "done"
                     IN /\ out' = o2
                        /\ wk' = wk2
                        /\ idx' = IF more THEN idx + 1 ELSE idx
                        /\ started' = IF more
                                      THEN [started EXCEPT ![idx + 1] = @ + 1]
                                      ELSE started
                        /\ mpc' = IF alldone /\ mpc = "pending" THEN "resolved" ELSE mpc
                        /\ IF alldone /\ epc = "details"
                           THEN epc' = "returned" /\ items' = Merge(summaries, o2)
                           ELSE epc' = epc /\ items' = items
    /\ UNCHANGED <<caller, summaries, arr, concurrency>>
    /\ UNCHANGED nonMapVars

Next ==
    \/ CallDirect
    \/ CallSearchEbayEnriched
    \/ SearchThrows
    \/ SearchResolves
    \/ \E w \in DOMAIN wk : FnSettle(w)

(***************************************************************************)
(* The JSON-RPC handler: api/mcp.js 283-339 with browseSearch and          *)
(* ebayFetch (142-172), and the handler of the refresh-token variant       *)
(* (refresh 102-222). A process runs one of the two files, the one whose   *)
(* token function tokImpl names. The handler's own token call is call 1.   *)
(***************************************************************************)
MaxHandlerSummaries == 2

Max(a, b) == IF a > b THEN a ELSE b

(* args.query after String(args?.query || ""): empty (or absent), blank,   *)
(* a plain word, an exclusion-marked word.                                 *)
HandlerQueries == {<< >>, <<" ">>, <<"a">>, <<"-", "a">>}

(* args.limit: absent, null, a number in range, below, above, negative,    *)
(* fractional, a numeric string, a string that is no number.               *)
LimitArgs ==
    {Undef, NULL, Num(1000), Num(0), Num(9900), Num(-300), Num(250),
     Str(<<"7">>), Str(<<"a", "b", "c">>)}

(* args.offset: absent, zero, positive, negative, fractional, no number.   *)
OffsetArgs == {Undef, Num(0), Num(200), Num(-100), Num(150), Str(<<"x">>)}

EndingSoon == <<"E", "N", "D", "I", "N", "G", "_", "S", "O", "O", "N">>
PriceAsc == <<"P", "R", "I", "C", "E", "_", "A", "S", "C">>
PriceDesc == <<"P", "R", "I", "C", "E", "_", "D", "E", "S", "C">>
BestMatch == <<"B", "E", "S", "T", "_", "M", "A", "T", "C", "H">>

(* args.sort: absent, the four names, a name in lower case, another word.  *)
SortArgs ==
    {Undef, Str(EndingSoon), Str(PriceAsc), Str(PriceDesc), Str(BestMatch),
     Str(<<"p", "r", "i", "c", "e", "_", "a", "s", "c">>), Str(<<"N", "E", "W">>)}

SearchCall(q, l, o, srt) ==
    [httpMethod |-> "POST", jsonrpc |-> "2.0", method |-> "tools/call",
     tool |-> "search_ebay", query |-> q, limit |-> l, offset |-> o, sort |-> srt]

(* The requests: the search_ebay calls over the queries and limits and     *)
(* over the offsets and sorts, and one request for each way of not being a *)
(* search_ebay call.                                                       *)
Requests ==
    {SearchCall(q, l, Undef, Undef) : q \in HandlerQueries, l \in LimitArgs}
    \cup {SearchCall(<<"a">>, Undef, o, srt) : o \in OffsetArgs, srt \in SortArgs}
    \cup (LET base == SearchCall(<<"a">>, Undef, Undef, Undef)
          IN {[base EXCEPT !.httpMethod = m] : m \in {"OPTIONS", "GET", "PUT"}}
             \cup {[base EXCEPT !.jsonrpc = "1.0"]}
             \cup {[base EXCEPT !.method = m] : m \in {"initialize", "other"}}
             \cup {[base EXCEPT !.tool = "other"]})

NoRequest == [SearchCall(<< >>, Undef, Undef, Undef) EXCEPT !.httpMethod = "none"]

(* The query parameters of an upstream search request; Undef: not set.     *)
SearchParams(q, limit, offset, srt, sortOrder) ==
    [q |-> q, limit |-> limit, offset |-> offset, sort |-> srt, sortOrder |-> sortOrder]

NoParams == SearchParams(<< >>, Undef, Undef, Undef, Undef)

NoResponse == [status |-> 0, kind |-> "none", code |-> 0, items |-> << >>]

(* The search responses the handler receives.                              *)
HandlerSearchResponses ==
    {r \in SearchResponses : Len(r.itemSummaries) <= MaxHandlerSummaries}

(* The non-ok statuses of the upstream search.                             *)
UpstreamErrorStatuses == {404, 500}

(* Math.floor on a number in hundredths.                                   *)
Floor(v) == (v \div 100) * 100

(* clampInt(n, min, max, fallback) (70-74); min, max and fallback are      *)
(* whole numbers.                                                          *)
clampInt(n, lo, hi, fallback) ==
    LET x == NumberOf(n)
    IN IF x.kind # "number" THEN Num(fallback * 100)
       ELSE Num(Max(lo * 100, Min(hi * 100, Floor(x.v))))

(* Math.max(a, b) and Math.min(a, b) with b a whole number: NaN stays NaN. *)
MathMax(a, b) == IF a.kind # "number" THEN NaN ELSE Num(Max(a.v, b * 100))

MathMin(a, b) == IF a.kind # "number" THEN NaN ELSE Num(Min(a.v, b * 100))

(* a ?? b                                                                  *)
Nullish(a, b) == IF a \in {Undef, NULL} THEN b ELSE a

LowerCase ==
    <<"a", "b", "c", "d", "e", "f", "g", "h", "i", "j", "k", "l", "m",
      "n", "o", "p", "q", "r", "s", "t", "u", "v", "w", "x", "y", "z">>

UpperCase ==
    <<"A", "B", "C", "D", "E", "F", "G", "H", "I", "J", "K", "L", "M",
      "N", "O", "P", "Q", "R", "S", "T", "U", "V", "W", "X", "Y", "Z">>

(* String.prototype.toUpperCase on a sequence of characters.               *)
toUpperCase(chars) ==
    [k \in 1..Len(chars) |->
        IF \E j \in 1..26 : LowerCase[j] = chars[k]
        THEN UpperCase[CHOOSE j \in 1..26 : LowerCase[j] = chars[k]]
        ELSE chars[k]]

(* The sort mapping of the refresh-token handler (refresh 142-156): the    *)
(* sort and sortOrder parameters for String(args?.sort ||                  *)
(* "BEST_MATCH").toUpperCase().                                            *)
ebaySort(srt) ==
    IF srt = EndingSoon THEN Str(<<"endingSoonest">>)
    ELSE IF srt \in {PriceDesc, PriceAsc} THEN Str(<<"price">>)
    ELSE Undef

ebaySortOrder(srt) ==
    IF srt = PriceDesc THEN Str(<<"DESC">>)
    ELSE IF srt = PriceAsc THEN Str(<<"ASC">>)
    ELSE Undef

(* The response sendJson / res.status().json() sends: the HTTP status, the *)
(* kind of body ("empty", "plain" for a body that is no JSON-RPC envelope, *)
(* and for the envelopes "result" for a result with content, "info" for    *)
(* the static initialize result, "nullresult" for result: null, "error"    *)
(* for an error object), the JSON-RPC error code (0: none) and the items   *)
(* of a result.                                                            *)
sendJson(status, kind, code, its) ==
    [status |-> status, kind |-> kind, code |-> code, items |-> its]

(* rpcError(id, message, code = -32000)                                    *)
rpcError(code) == sendJson(200, "error", code, << >>)

(* q: cleaned || "LEGO"  (165)                                             *)
browseSearchQuery(query) ==
    LET cleaned == sanitizeBrowseQuery(query)
    IN IF cleaned # << >> THEN cleaned ELSE <<"L", "E", "G", "O">>

(* The refresh-token handler's items.map(...) (refresh 182-203): one       *)
(* simplified record per summary, no detail record merged.                 *)
Simplified(batch) == [k \in 1..Len(batch) |-> [rid |-> batch[k].itemId, d |-> NULL]]

HandlerIdle ==
    /\ req = NoRequest
    /\ hpc = "off"
    /\ pending = NoParams
    /\ searchReqs = << >>
    /\ res = NoResponse

HandlerInit ==
    /\ req \in Requests
    /\ hpc = "received"
    /\ pending = NoParams
    /\ searchReqs = << >>
    /\ res = NoResponse

(* The handler answers at once, without calling anything.                  *)
HandlerAnswers(r) ==
    /\ res' = r
    /\ hpc' = "done"
    /\ UNCHANGED <<req, pending, searchReqs>>
    /\ UNCHANGED <<mapVars, sanVars, normVars, tokVars>>

(* handler of api/mcp.js up to its first await (283-322): the checks, then *)
(* searchEbayEnriched -> browseSearch -> ebayFetch -> getAccessToken, all  *)
(* of which run synchronously up to the token call's own first await.      *)
HandlerEntry ==
    /\ tokImpl = "getAccessToken"
    /\ hpc = "received"
    /\ IF req.httpMethod = "OPTIONS"
          THEN HandlerAnswers(sendJson(204, "empty", 0, << >>))
       ELSE IF req.httpMethod # "POST"
          THEN HandlerAnswers(sendJson(405, "plain", 0, << >>))
       ELSE IF MissingCredentials(env)
          THEN HandlerAnswers(sendJson(500, "plain", 0, << >>))
       ELSE IF req.jsonrpc # "2.0"
          THEN HandlerAnswers(sendJson(400, "error", -32600, << >>))
       ELSE IF req.method # "tools/call"
          THEN HandlerAnswers(sendJson(400, "error", -32601, << >>))
       ELSE IF req.tool # "search_ebay"
          THEN HandlerAnswers(sendJson(400, "error", -32601, << >>))
       ELSE LET query == req.query
                limit == clampInt(req.limit, 1, 50, 25)
                lim == clampInt(limit, 1, 50, 25)
            IN /\ pending' = SearchParams(browseSearchQuery(query), lim, Undef, Undef, Undef)
               /\ epc' = "search"
               /\ GetAccessTokenBegin(1)
               /\ hpc' = "token"
               /\ UNCHANGED <<req, searchReqs, res>>
               /\ UNCHANGED <<caller, summaries, arr, concurrency, idx, out, wk, mpc,
                              started, fnret, outcomes, lastSettled, items>>
               /\ UNCHANGED <<sanVars, normVars>>

(* ebayFetch resumes after await getAccessToken() (143-152): a throw       *)
(* propagates to the handler's catch, which answers 200 with rpcError;     *)
(* otherwise the search request is sent.                                   *)
HandlerTokenResumes ==
    /\ tokImpl = "getAccessToken"
    /\ hpc = "token"
    /\ tcall[1].pc \in {"returned", "threw"}
    /\ tcall' = [tcall EXCEPT ![1] = IdleCall]
    /\ IF tcall[1].pc = "threw"
          THEN /\ epc' = "threw"
               /\ res' = rpcError(-32000)
               /\ hpc' = "done"
               /\ UNCHANGED searchReqs
          ELSE /\ searchReqs' = Append(searchReqs, pending)
               /\ hpc' = "search"
               /\ UNCHANGED <<epc, res>>
    /\ UNCHANGED <<req, pending>>
    /\ UNCHANGED <<caller, summaries, arr, concurrency, idx, out, wk, mpc,
                   started, fnret, outcomes, lastSettled, items>>
    /\ UNCHANGED <<tokImpl, env, nowMs, tokenCache, cachedToken, cachedTokenExpiresAt,
                   oauthRequests, issued>>
    /\ UNCHANGED <<sanVars, normVars>>

(* Mutant: a failed search is taken for a search without results.          *)
HandlerSearchFailsReturnsEmpty ==
    /\ tokImpl = "getAccessToken"
    /\ hpc = "search"
    /\ epc' = "returned"
    /\ res' = sendJson(200, "result", 0, << >>)
    /\ hpc' = "done"
    /\ UNCHANGED <<req, pending, searchReqs>>
    /\ UNCHANGED <<caller, summaries, arr, concurrency, idx, out, wk, mpc,
                   started, fnret, outcomes, lastSettled, items>>
    /\ UNCHANGED <<sanVars, normVars, tokVars>>

(* The search response is not ok, or its body is not JSON (154-159):       *)
(* ebayFetch throws and the handler's catch answers.                       *)
HandlerSearchFails ==
    /\ tokImpl = "getAccessToken"
    /\ hpc = "search"
    /\ epc' = "threw"
    /\ res' = rpcError(-32000)
    /\ hpc' = "done"
    /\ UNCHANGED <<req, pending, searchReqs>>
    /\ UNCHANGED <<caller, summaries, arr, concurrency, idx, out, wk, mpc,
                   started, fnret, outcomes, lastSettled, items>>
    /\ UNCHANGED <<sanVars, normVars, tokVars>>

(* The search response arrives and searchEbayEnriched goes on (204-211).   *)
HandlerSearchResolves ==
    /\ tokImpl = "getAccessToken"
    /\ hpc = "search"
    /\ \E search \in HandlerSearchResponses : EnrichedFanOut(search)
    /\ hpc' = "details"
    /\ UNCHANGED <<req, pending, searchReqs, res>>
    /\ UNCHANGED <<sanVars, normVars, tokVars>>

(* searchEbayEnriched has returned: the handler answers with the items     *)
(* (324-330).                                                              *)
HandlerResponds ==
    /\ tokImpl = "getAccessToken"
    /\ hpc = "details"
    /\ epc = "returned"
    /\ res' = sendJson(200, "result", 0, items)
    /\ hpc' = "done"
    /\ UNCHANGED <<req, pending, searchReqs>>
    /\ UNCHANGED <<mapVars, sanVars, normVars, tokVars>>

(* handler of the refresh-token variant up to its first await (refresh     *)
(* 102-165): the checks, the early answer to an empty query, the request   *)
(* parameters, then getEbayAccessToken.                                    *)
RefreshHandlerEntry ==
    /\ tokImpl = "getEbayAccessToken"
    /\ hpc = "received"
    /\ IF req.httpMethod # "POST"
          THEN HandlerAnswers(sendJson(405, "plain", 0, << >>))
       ELSE IF req.method # "tools/call" \/ req.tool # "search_ebay"
          THEN HandlerAnswers(sendJson(400, "error", 0, << >>))
       ELSE LET query == Trim(req.query)
                limitRaw == NumberOf(Nullish(req.limit, Num(5000)))
                offsetRaw == NumberOf(Nullish(req.offset, Num(0)))
                srt == toUpperCase(OrElse(req.sort, Str(BestMatch)).v)
                limit == MathMin(MathMax(limitRaw, 1), 200)
                offset == MathMax(offsetRaw, 0)
            IN IF query = << >>
               THEN HandlerAnswers(sendJson(200, "result", 0, << >>))
               ELSE /\ pending' = SearchParams(query, limit, offset,
                                               ebaySort(srt), ebaySortOrder(srt))
                    /\ GetEbayAccessTokenBegin(1)
                    /\ hpc' = "token"
                    /\ UNCHANGED <<req, searchReqs, res>>
                    /\ UNCHANGED <<mapVars, sanVars, normVars>>

(* The handler resumes after await getEbayAccessToken() (refresh 165-173): *)
(* a throw goes to the catch, which answers 500; otherwise the search      *)
(* request is sent.                                                        *)
RefreshHandlerTokenResumes ==
    /\ tokImpl = "getEbayAccessToken"
    /\ hpc = "token"
    /\ tcall[1].pc \in {"returned", "threw"}
    /\ tcall' = [tcall EXCEPT ![1] = IdleCall]
    /\ IF tcall[1].pc = "threw"
          THEN /\ res' = sendJson(500, "error", 0, << >>)
               /\ hpc' = "done"
               /\ UNCHANGED searchReqs
          ELSE /\ searchReqs' = Append(searchReqs, pending)
               /\ hpc' = "search"
               /\ UNCHANGED res
    /\ UNCHANGED <<req, pending>>
    /\ UNCHANGED <<tokImpl, env, nowMs, tokenCache, cachedToken, cachedTokenExpiresAt,
                   oauthRequests, issued>>
    /\ UNCHANGED <<mapVars, sanVars, normVars>>

(* The search response arrives (refresh 175-205): a non-ok status is       *)
(* passed on with an error body; a body that does not parse makes          *)
(* JSON.parse throw into the catch; otherwise the simplified items are     *)
(* the result.                                                             *)
RefreshHandlerSearchResponds ==
    /\ tokImpl = "getEbayAccessToken"
    /\ hpc = "search"
    /\ \/ \E st \in UpstreamErrorStatuses : res' = sendJson(st, "error", 0, << >>)
       \/ res' = sendJson(500, "error", 0, << >>)
       \/ \E search \in HandlerSearchResponses :
             res' = sendJson(200, "result", 0, Simplified(SummariesOf(search)))
    /\ hpc' = "done"
    /\ UNCHANGED <<req, pending, searchReqs>>
    /\ UNCHANGED <<mapVars, sanVars, normVars, tokVars>>

(* handler of the static variant (static 1-61), which calls nothing:      *)
(* OPTIONS and GET are answered 200, a POST initialize with the static     *)
(* protocol version, capabilities and server info, any other POST with     *)
(* result: null, any other HTTP method with 405.                           *)
StaticHandlerEntry ==
    /\ tokImpl = "none"
    /\ hpc = "received"
    /\ IF req.httpMethod = "OPTIONS"
          THEN HandlerAnswers(sendJson(200, "empty", 0, << >>))
       ELSE IF req.httpMethod = "GET"
          THEN HandlerAnswers(sendJson(200, "plain", 0, << >>))
       ELSE IF req.httpMethod = "POST"
          THEN IF req.method = "initialize"
                  THEN HandlerAnswers(sendJson(200, "info", 0, << >>))
                  ELSE HandlerAnswers(sendJson(200, "nullresult", 0, << >>))
       ELSE HandlerAnswers(sendJson(405, "empty", 0, << >>))

HandlerNext ==
    \/ StaticHandlerEntry
    \/ HandlerEntry
    \/ GetAccessTokenSettle(1)
    \/ HandlerTokenResumes
    \/ HandlerSearchFails
    \/ HandlerSearchResolves
    \/ \E w \in DOMAIN wk : FnSettle(w)
    \/ HandlerResponds
    \/ RefreshHandlerEntry
    \/ GetEbayAccessTokenSettle(1)
    \/ RefreshHandlerTokenResumes
    \/ RefreshHandlerSearchResponds

Init == MapInit /\ SanIdle /\ NormIdle /\ TokIdle /\ HandlerIdle

Spec == Init /\ [][Next]_vars

(* mapWithConcurrency called on its own, with every fn call completing: a  *)
(* worker that awaits a call of fn is resumed at some time.                *)
MapNext ==
    \/ CallDirect
    \/ \E w \in DOMAIN wk : FnSettle(w)

LiveSpec ==
    Init /\ [][MapNext]_vars /\ \A w \in 1..MaxC : WF_vars(FnSettle(w))

(* The sanitizer applied to every raw query.                               *)
SanSpecInit == MapInit /\ SanInit /\ NormIdle /\ TokIdle /\ HandlerIdle

SanSpec == SanSpecInit /\ [][SanNext]_vars

(* The token functions under concurrent callers and a moving clock.        *)
TokSpecInit == MapInit /\ SanIdle /\ NormIdle /\ TokInit /\ HandlerIdle

TokSpec == TokSpecInit /\ [][TokNext]_vars

(* One request served by the handler of one of the files.                  *)
HandlerSpecInit ==
    MapInit /\ SanIdle /\ NormIdle /\ (TokInit \/ StaticTokInit) /\ HandlerInit

HandlerSpec == HandlerSpecInit /\ [][HandlerNext]_vars

(* The normalization applied to every pair of records of NormInputs.       *)
NormSpecInit == MapInit /\ SanIdle /\ NormInit /\ TokIdle /\ HandlerIdle

NormSpec == NormSpecInit /\ [][NormNext]_vars

(***************************************************************************)
(* Claims about mapWithConcurrency and the detail fan-out.                 *)
(***************************************************************************)

(* The indices whose fn call has started and has not settled.              *)
InFlight == {k \in 1..Len(started) : started[k] > 0 /\ fnret[k] = Unset}

(* C1: at no time are more than `concurrency` invocations of fn started    *)
(* and not yet completed, whatever the input, the concurrency (>= 1) and   *)
(* the completion order; in searchEbayEnriched at most 5 detail fetches    *)
(* are in flight.                                                          *)
Thm_C1_InFlightBounded ==
    /\ caller # "none" => Cardinality(InFlight) <= concurrency
    /\ caller = "searchEbayEnriched" => Cardinality(InFlight) <= 5

(* C1 witness: an enriched search over more than 5 ids has 5 fetches in    *)
(* flight again after one fetch has completed and the sixth has started.   *)
Wit_C1_CapBinds ==
    /\ caller = "searchEbayEnriched"
    /\ Len(arr) > 5
    /\ Cardinality(InFlight) = 5
    /\ lastSettled >= 0
    /\ started[6] = 1

(* C2: when mapWithConcurrency resolves, out has the length of the input   *)
(* and out[i] is what fn returned for input[i], for every i, whatever the  *)
(* concurrency and the completion order.                                   *)
Thm_C2_OrderPreserved ==
    mpc = "resolved" =>
        /\ Len(out) = Len(arr)
        /\ \A k \in 1..Len(arr) :
              /\ out[k] # Unset
              /\ out[k] = fnret[k]
              /\ caller = "direct" => out[k] = FnValue(arr[k], k - 1)
              /\ caller = "searchEbayEnriched" => out[k].rid = arr[k]

(* C2 witness: a resolved direct call over 3 inputs, 2 at a time, in which *)
(* the call for index 0 completed last.                                    *)
Wit_C2_ZeroLast ==
    /\ caller = "direct"
    /\ mpc = "resolved"
    /\ Len(arr) = 3
    /\ concurrency = 2
    /\ arr[1] # arr[2]
    /\ lastSettled = 0

(* The result the detail closure owes the element at index k, given what   *)
(* the fetch of that element alone did.                                    *)
OwnResult(k) ==
    [kind |-> "detail", ok |-> outcomes[k] # "throw", rid |-> arr[k],
     d |-> IF outcomes[k] = "detail" THEN DetailOf(arr[k]) ELSE NULL]

(* C3: a failing detail fetch is recorded as that element's error result   *)
(* only: the executor never rejects and no worker dies, a worker stops     *)
(* only when no id is left and the fan-out can always go on, every element *)
(* whose fetch has settled holds the result of its own fetch, and when the *)
(* executor has resolved every id was fetched exactly once and has its     *)
(* result.                                                                 *)
Thm_C3_FailureIsolated ==
    caller = "searchEbayEnriched" =>
        /\ mpc # "rejected" /\ epc # "threw"
        /\ \A w \in DOMAIN wk : wk[w].pc # "rejected"
        /\ \A w \in DOMAIN wk : wk[w].pc = "done" => idx = Len(arr)
        /\ epc = "details" => \E w \in DOMAIN wk : wk[w].pc = "await"
        /\ \A k \in 1..Len(arr) : outcomes[k] # "none" => out[k] = OwnResult(k)
        /\ epc = "returned" =>
              /\ mpc = "resolved"
              /\ Len(out) = Len(arr)
              /\ \A k \in 1..Len(arr) : started[k] = 1 /\ outcomes[k] # "none"

(* C3 witness: the enriched search has returned, the fetch of the first id *)
(* failed and the fetches of the ids after it succeeded.                   *)
Wit_C3_OneFailed ==
    /\ caller = "searchEbayEnriched"
    /\ epc = "returned"
    /\ Len(arr) >= 3
    /\ outcomes[1] = "throw"
    /\ \A k \in 2..Len(arr) : out[k].ok /\ out[k].d = DetailOf(arr[k])

(***************************************************************************)
(* Claims about sanitizeBrowseQuery.                                       *)
(***************************************************************************)

(* The whitespace-separated tokens of a string.                            *)
TokensOf(x) == IF Trim(x) = << >> THEN << >> ELSE SplitWs(Trim(x))

IsOperatorToken(t) == t \in {<<"O", "R">>, <<"A", "N", "D">>, <<"N", "O", "T">>}

IsExclusionToken(t) == t # << >> /\ t[1] = "-"

(* The tokens that are neither boolean operators nor exclusion-marked.     *)
PlainTokens(x) ==
    SelectSeq(TokensOf(x), LAMBDA t : ~IsOperatorToken(t) /\ ~IsExclusionToken(t))

(* C8 as stated: the result is empty only if the input is empty or         *)
(* whitespace-only; when dropping operator and exclusion tokens leaves     *)
(* nothing the result is the input with the exclusion-marked substrings    *)
(* stripped, and if that is empty too it is the raw input unchanged.       *)
Cex_C8_NeverEmpty ==
    sanDone =>
        /\ sanOut = << >> => Trim(sanRaw) = << >>
        /\ (Trim(sanRaw) # << >> /\ PlainTokens(sanRaw) = << >>) =>
              sanOut = IF Trim(StripExcl(Trim(sanRaw))) # << >>
                       THEN Trim(StripExcl(Trim(sanRaw)))
                       ELSE sanRaw

(* C8 as amended: when dropping operator and exclusion tokens leaves       *)
(* nothing the result is the input with the exclusion-marked substrings    *)
(* stripped, and if that is empty too the result is the empty string; the  *)
(* result is empty exactly when every token of the input is a "-" followed *)
(* by at least one character (which covers the empty and the whitespace-   *)
(* only input).                                                            *)
Thm_C8_EmptyOnlyIfAllExcluded ==
    sanDone =>
        /\ PlainTokens(sanRaw) = << >> => sanOut = Trim(StripExcl(Trim(sanRaw)))
        /\ sanOut = << >> <=>
              \A k \in 1..Len(TokensOf(sanRaw)) :
                  IsExclusionToken(TokensOf(sanRaw)[k]) /\ Len(TokensOf(sanRaw)[k]) >= 2

(* C8 witness: a query that is not blank and is sanitized to the empty     *)
(* string.                                                                 *)
Wit_C8_ExclusionsOnly ==
    /\ sanDone
    /\ Trim(sanRaw) # << >>
    /\ Len(TokensOf(sanRaw)) >= 2
    /\ sanOut = << >>

(* C9: when the query has a token that is neither exclusion-marked nor an  *)
(* operator, no token of the result starts with "-"; a token starting with *)
(* "-" is in the result only when the filtered token list is empty.        *)
Thm_C9_NoExclusionTokenLeft ==
    sanDone =>
        /\ PlainTokens(sanRaw) # << >> =>
              \A k \in 1..Len(TokensOf(sanOut)) : ~IsExclusionToken(TokensOf(sanOut)[k])
        /\ (\E k \in 1..Len(TokensOf(sanOut)) : IsExclusionToken(TokensOf(sanOut)[k])) =>
              PlainTokens(sanRaw) = << >>

(* C9 witness: a sanitized query that had a plain token and an exclusion   *)
(* token of two characters or more.                                        *)
Wit_C9_ExclusionDropped ==
    /\ sanDone
    /\ PlainTokens(sanRaw) # << >>
    /\ \E k \in 1..Len(TokensOf(sanRaw)) :
          IsExclusionToken(TokensOf(sanRaw)[k]) /\ Len(TokensOf(sanRaw)[k]) >= 2
    /\ sanOut # << >>

(***************************************************************************)
(* Claims about the token cache.                                           *)
(***************************************************************************)

(* The cached credential of the token function the process runs.           *)
CredTok == IF tokImpl = "getAccessToken" THEN tokenCache.accessToken ELSE cachedToken

CredExp == IF tokImpl = "getAccessToken" THEN tokenCache.expiresAtMs ELSE cachedTokenExpiresAt

(* C4 as stated: every token a call returns, from the cache or right after *)
(* a refresh, has at least 60 seconds left before its expiry when it is    *)
(* returned, and a cached token with less than that left is not served     *)
(* from the cache.                                                         *)
Cex_C4_SixtySecondsLeft ==
    [][\A c \in Callers :
          /\ (tcall[c].pc # "returned" /\ tcall'[c].pc = "returned") =>
                CredExp' - nowMs' >= 60000
          /\ (tcall[c].pc = "idle" /\ tcall'[c].pc # "idle"
                  /\ CredTok # 0 /\ CredExp - nowMs < 60000) =>
                ~tcall'[c].cached]_vars

(* C5: with a token in the cache, a call made while more than the safety   *)
(* margin (30 s in getAccessToken, 60 s in getEbayAccessToken) remains     *)
(* returns the cached token and sends no OAuth request; a call made once   *)
(* no more than 30 s remain (expiresIn - 30 s or more have elapsed) sends  *)
(* an OAuth request.                                                       *)
Thm_C5_ReuseThenRefresh ==
    [][\A c \in Callers :
          (tcall[c].pc = "idle" /\ tcall'[c].pc # "idle" /\ CredTok # 0) =>
              /\ (CredExp - nowMs >
                      (IF tokImpl = "getAccessToken" THEN 30000 ELSE 60000)) =>
                    /\ tcall'[c].pc = "returned"
                    /\ tcall'[c].ret = CredTok
                    /\ oauthRequests' = oauthRequests
              /\ (nowMs >= CredExp - 30000) =>
                    /\ tcall'[c].pc = "fetch"
                    /\ oauthRequests' = oauthRequests + 1]_vars

(* C5 witness: one call was served from the cache and, later, with the     *)
(* cached token inside its last 30 seconds, another call is awaiting the   *)
(* OAuth response.                                                         *)
Wit_C5_CachedThenRefreshing ==
    \E c1, c2 \in Callers :
        /\ tcall[c1].pc = "returned" /\ tcall[c1].cached /\ tcall[c1].ret = CredTok
        /\ tcall[c2].pc = "fetch"
        /\ CredTok # 0
        /\ tcall[c2].now >= CredExp - 30000
        /\ tcall[c2].now < CredExp

(* C6 as stated: the token call fails when the client id or the client     *)
(* secret is absent (and then no OAuth request is sent), when the OAuth    *)
(* response is not a success, and when its body does not parse or has no   *)
(* access_token; it never returns an absent token as a success.            *)
Cex_C6_FailsWithoutToken ==
    \A c \in Callers :
        /\ (~env.clientId \/ ~env.clientSecret) =>
              /\ tcall[c].pc # "returned"
              /\ oauthRequests = 0
        /\ tcall[c].resp \in {"notok", "badjson", "notoken"} => tcall[c].pc = "threw"
        /\ tcall[c].pc = "returned" => tcall[c].ret # 0

(* C7 as stated: under every interleaving of token calls the cached token  *)
(* and the cached expiry are written together from one completed OAuth     *)
(* response (so the cache holds what the response that completed last      *)
(* wrote), and no call is handed a token that is past the safety margin   *)
(* (fewer than 60 seconds left).                                           *)
Cex_C7_CacheNeverCorrupted ==
    [][/\ (CredTok' # CredTok \/ CredExp' # CredExp) =>
             \E c \in Callers :
                 /\ tcall[c].pc = "fetch" /\ tcall'[c].pc = "returned"
                 /\ CredTok' = tcall'[c].ret
                 /\ \E e \in ExpiresInValues :
                       CredExp' \in {tcall[c].now + toNum(e, DefaultExpiresInSec) * 1000,
                                     nowMs + toNum(e, DefaultExpiresInSec) * 1000}
       /\ \A c \in Callers :
             (tcall[c].pc # "returned" /\ tcall'[c].pc = "returned") =>
                 CredExp' - nowMs' >= 60000
      ]_vars

(***************************************************************************)
(* Claims about the handler.                                               *)
(***************************************************************************)

(* The request is a well-formed search_ebay call to a process that has its *)
(* credentials configured.                                                 *)
IsSearchEbayCall ==
    /\ req.httpMethod = "POST"
    /\ req.jsonrpc = "2.0"
    /\ req.method = "tools/call"
    /\ req.tool = "search_ebay"
    /\ ~MissingRefreshCredentials(env)

(* The detail fetches issued: the browseGetItem calls started.             *)
DetailFetches == {k \in 1..Len(started) : started[k] > 0}

(* C10 as stated: a search_ebay call whose query is empty or only          *)
(* whitespace issues no upstream search request and no detail request,     *)
(* and is answered with a success result carrying an empty list.           *)
Cex_C10_EmptyQueryNoUpstream ==
    (IsSearchEbayCall /\ Trim(req.query) = << >>) =>
        /\ searchReqs = << >>
        /\ DetailFetches = {}
        /\ hpc = "done" => (res.status = 200 /\ res.kind = "result" /\ res.items = << >>)

(***************************************************************************)
(* Claims about the merge and the normalization.                           *)
(***************************************************************************)

(* The items searchEbayEnriched returned.                                  *)
ReturnedItems == [k \in 1..Len(items) |-> ItemOf(items[k])]

(* The item normalization produces from a summary alone.                   *)
SummaryOnly(s) == MergedItem[s.rec][s.itemId][0]

(* The index in the fan-out of the detail fetch started for summary k.     *)
OwnFetch(k) == Cardinality({j \in 1..k : summaries[j].itemId # 0})

(* C11 as stated: the enriched search returns one item per summary, in     *)
(* summary order, whichever detail fetches fail, and the item of a summary *)
(* whose own detail fetch failed or was skipped (no itemId) equals the     *)
(* item made from the summary alone.                                       *)
Cex_C11_OwnFetchFailedSummaryOnly ==
    epc = "returned" =>
        /\ Len(items) = Len(summaries)
        /\ \A k \in 1..Len(summaries) :
              /\ items[k].s = summaries[k]
              /\ (summaries[k].itemId = 0 \/ outcomes[OwnFetch(k)] = "throw") =>
                    ReturnedItems[k] = SummaryOnly(summaries[k])

(* C11 amended: one item per summary, in summary order, whichever detail   *)
(* fetches fail; the item of a summary equals the item made from the       *)
(* summary alone when the summary has no itemId or no detail fetch for its *)
(* itemId delivered a record, and otherwise it is the summary merged with  *)
(* the detail record of its itemId.                                        *)
Thm_C11_OneItemPerSummary ==
    epc = "returned" =>
        /\ Len(items) = Len(summaries)
        /\ \A k \in 1..Len(summaries) :
              LET id == summaries[k].itemId
                  delivered == {j \in 1..Len(arr) : arr[j] = id /\ outcomes[j] = "detail"}
              IN /\ items[k].s = summaries[k]
                 /\ ReturnedItems[k] =
                       IF id = 0 \/ delivered = {}
                       THEN SummaryOnly(summaries[k])
                       ELSE MergedItem[summaries[k].rec][id][id]

(* C11 witness: five summaries, exactly one detail fetch failed, five      *)
(* items returned.                                                         *)
Wit_C11_OneOfFiveFailed ==
    /\ epc = "returned"
    /\ Len(summaries) = 5
    /\ Len(arr) = 5
    /\ Cardinality({j \in 1..5 : outcomes[j] = "throw"}) = 1
    /\ Cardinality({j \in 1..5 : outcomes[j] = "detail"}) = 4
    /\ Len(items) = 5

(* The value the fallback chain of a numeric field is said to give: the    *)
(* detail's value if it parses as a finite number, else the summary's if   *)
(* it does, else 0.                                                        *)
FirstFinite(dv, sv) ==
    IF NumberOf(dv).kind = "number" THEN NumberOf(dv)
    ELSE IF NumberOf(sv).kind = "number" THEN NumberOf(sv)
    ELSE Num(0)

(* C12 as stated: price and shipping of a normalized item are the detail   *)
(* record's value if it parses as a finite number, otherwise the summary   *)
(* record's value if it parses as a finite number, otherwise 0.            *)
Cex_C12_FirstFiniteNumber ==
    normDone =>
        /\ normItem.price =
              FirstFinite(DetailField(normD, "priceValue"), normS.priceValue)
        /\ normItem.shipping =
              FirstFinite(DetailField(normD, "shippingCostValue"), normS.shippingCostValue)

(* A value that counts as missing: undefined, null or a blank string.      *)
Missing(v) == PickSkips(v)

(* A string with something in it, or null.                                 *)
TextOrNull(v) == v = NULL \/ (v.kind = "string" /\ Trim(v.v) # << >>)

(* C13: a normalized item has exactly the ten fields, none of them         *)
(* undefined: price, shipping and the feedback percent are finite numbers, *)
(* title, seller and itemWebUrl are non-blank strings, buyingOptions is an *)
(* array, the others a value or null; and when a field is missing on both  *)
(* records it resolves to null (image, itemEndDate), to 0 (price,          *)
(* shipping) or to its default (seller "eBay Seller", feedback percent 99, *)
(* buyingOptions []).                                                      *)
Thm_C13_AllFieldsDefined ==
    normDone =>
        /\ DOMAIN normItem = {"itemId", "title", "price", "shipping", "seller",
                              "sellerFeedbackPercent", "itemWebUrl", "image",
                              "itemEndDate", "buyingOptions"}
        /\ \A f \in DOMAIN normItem : normItem[f] \notin {Undef, NaN}
        /\ normItem.price.kind = "number" /\ normItem.shipping.kind = "number"
        /\ normItem.sellerFeedbackPercent.kind = "number"
        /\ normItem.buyingOptions.kind = "array"
        /\ normItem.title.kind = "string" /\ Trim(normItem.title.v) # << >>
        /\ normItem.seller.kind = "string" /\ Trim(normItem.seller.v) # << >>
        /\ normItem.itemWebUrl.kind = "string" /\ Trim(normItem.itemWebUrl.v) # << >>
        /\ TextOrNull(normItem.image) /\ TextOrNull(normItem.itemEndDate)
        /\ normItem.itemId = NULL \/ normItem.itemId.kind \in {"id", "string"}
        /\ (Missing(DetailField(normD, "sellerUsername")) /\ Missing(normS.sellerUsername))
              => normItem.seller = Str(<<"eBay Seller">>)
        /\ (Missing(DetailField(normD, "sellerFeedbackPercentage"))
               /\ Missing(normS.sellerFeedbackPercentage))
              => normItem.sellerFeedbackPercent = Num(9900)
        /\ (Missing(DetailField(normD, "priceValue")) /\ Missing(normS.priceValue))
              => normItem.price = Num(0)
        /\ (Missing(DetailField(normD, "shippingCostValue"))
               /\ Missing(normS.shippingCostValue))
              => normItem.shipping = Num(0)
        /\ (Missing(DetailField(normD, "itemEndDate")) /\ Missing(normS.itemEndDate))
              => normItem.itemEndDate = NULL
        /\ (Missing(DetailField(normD, "imageUrl"))
               /\ Missing(DetailField(normD, "primaryImageUrl"))
               /\ Missing(normS.imageUrl) /\ Missing(normS.thumbnailImageUrl))
              => normItem.image = NULL
        /\ normS.buyingOptions.kind # "array" => normItem.buyingOptions = Arr(<< >>)

(* C13 witness: the item made from a summary with no property at all and   *)
(* no detail record.                                                       *)
Wit_C13_NothingPresent ==
    /\ normDone
    /\ normS = BareSummary(0)
    /\ normD = NULL
    /\ normItem.itemId = NULL
    /\ normItem.title = Str(<<"Untitled", " ", "listing">>)
    /\ normItem.sellerFeedbackPercent = Num(9900)

(* A POST request has been answered.                                       *)
PostRequest == req.httpMethod = "POST" /\ hpc = "done"

(* C14: a POST tools/call naming a tool other than search_ebay, and a POST *)
(* with a method that is none of initialize, tools/list and tools/call, is *)
(* answered with HTTP status 200 and a JSON-RPC error of code -32601.      *)
Cex_C14_UnknownIsMethodNotFound200 ==
    (/\ PostRequest
     /\ req.jsonrpc = "2.0"
     /\ ~MissingCredentials(env)
     /\ \/ req.method = "tools/call" /\ req.tool # "search_ebay"
        \/ req.method = "other")
        => res = sendJson(200, "error", -32601, << >>)

(* C15: every POST is answered with HTTP status 200 and a JSON-RPC         *)
(* envelope that carries a result or an error.                             *)
Cex_C15_PostAlways200Envelope ==
    PostRequest => res.status = 200 /\ res.kind \in {"result", "info", "error"}

(* C16: a POST initialize is answered with the static success result and   *)
(* no upstream call is made for it, whatever the environment holds.        *)
Cex_C16_InitializeAlwaysSucceeds ==
    (PostRequest /\ req.method = "initialize")
        => /\ res = sendJson(200, "info", 0, << >>)
           /\ searchReqs = << >>
           /\ oauthRequests = 0
           /\ DetailFetches = {}

(* C17: when the token call or the search call of a search_ebay call       *)
(* fails, the invocation is aborted: no detail fetch has been issued, no   *)
(* item is returned and the caller is answered with a JSON-RPC error; and  *)
(* a detail fetch is issued, and a result returned, only after the search  *)
(* request was sent and its response taken up by searchEbayEnriched.       *)
Thm_C17_FailureAbortsBeforeFanOut ==
    /\ (hpc = "token" /\ tcall[1].pc = "threw") =>
          searchReqs = << >> /\ DetailFetches = {}
    /\ epc = "threw" =>
          /\ DetailFetches = {}
          /\ caller = "none"
          /\ items = << >>
          /\ hpc # "off" => hpc = "done" /\ res = rpcError(-32000)
    /\ DetailFetches # {} =>
          /\ caller = "searchEbayEnriched"
          /\ epc \in {"details", "returned"}
          /\ hpc # "off" => Len(searchReqs) = 1 /\ hpc \in {"details", "done"}
    /\ (tokImpl = "getAccessToken" /\ hpc = "done" /\ res.kind = "result") =>
          /\ epc = "returned"
          /\ caller = "searchEbayEnriched"
          /\ Len(searchReqs) = 1
    /\ (tokImpl = "getAccessToken" /\ hpc = "done" /\ IsSearchEbayCall
           /\ caller = "none") => epc = "threw"

(* C17 witness: the token was obtained, the search request was sent and    *)
(* failed, and the call was answered with the error.                       *)
Wit_C17_SearchFailed ==
    /\ hpc = "done"
    /\ epc = "threw"
    /\ Len(searchReqs) = 1
    /\ DetailFetches = {}
    /\ res = rpcError(-32000)

(* C18: the upstream search request carries the sort the call asked for:   *)
(* ENDING_SOON as sort=endingSoonest, PRICE_ASC and PRICE_DESC as          *)
(* sort=price with sortOrder ASC and DESC, BEST_MATCH as no sort and no    *)
(* sortOrder parameter.                                                    *)
Cex_C18_SortMappedUpstream ==
    \A k \in 1..Len(searchReqs) :
        LET p == searchReqs[k]
        IN /\ req.sort = Str(EndingSoon) => p.sort = Str(<<"endingSoonest">>)
           /\ req.sort = Str(PriceAsc) =>
                 p.sort = Str(<<"price">>) /\ p.sortOrder = Str(<<"ASC">>)
           /\ req.sort = Str(PriceDesc) =>
                 p.sort = Str(<<"price">>) /\ p.sortOrder = Str(<<"DESC">>)
           /\ req.sort = Str(BestMatch) => p.sort = Undef /\ p.sortOrder = Undef

(* C19: whatever the limit and offset arguments are, the limit of an       *)
(* upstream search request is a whole number from 1 to 50 and its offset,  *)
(* when one is sent, a number that is at least 0.                          *)
Cex_C19_LimitAndOffsetClamped ==
    \A k \in 1..Len(searchReqs) :
        LET p == searchReqs[k]
        IN /\ p.limit.kind = "number"
           /\ p.limit.v % 100 = 0
           /\ 100 <= p.limit.v /\ p.limit.v <= 5000
           /\ p.offset # Undef => p.offset.kind = "number" /\ p.offset.v >= 0

(* C20: when the query has a token that is neither AND, OR, NOT nor        *)
(* exclusion-marked, the result is made of exactly those tokens of the     *)
(* query, in their order, unaltered, with one space between two of them    *)
(* and no other whitespace.                                                *)
Thm_C20_PlainTokensKeptInOrder ==
    (sanDone /\ PlainTokens(sanRaw) # << >>) =>
        /\ TokensOf(sanOut) = PlainTokens(sanRaw)
        /\ sanOut = JoinSp(PlainTokens(sanRaw))
        /\ \A k \in 1..Len(sanOut) :
              IsWs(sanOut[k]) =>
                  /\ sanOut[k] = " "
                  /\ 1 < k /\ k < Len(sanOut)
                  /\ ~IsWs(sanOut[k + 1])

(* C20 witness: a query with two plain tokens, separated by a tab or by    *)
(* more than one space, from which an operator or an exclusion token was   *)
(* removed.                                                                *)
Wit_C20_OperatorRemovedBetweenTwo ==
    /\ sanDone
    /\ Len(PlainTokens(sanRaw)) = 2
    /\ Len(TokensOf(sanRaw)) = 3
    /\ \E k \in 1..Len(sanRaw) : sanRaw[k] = "\t"
    /\ sanOut = PlainTokens(sanRaw)[1] \o <<" ">> \o PlainTokens(sanRaw)[2]

(* A candidate value that is there: not undefined, not null and, when it   *)
(* is a string, not made of whitespace only.                               *)
Available(v) ==
    /\ v \notin {Undef, NULL}
    /\ v.kind = "string" => \E k \in 1..Len(v.v) : ~IsWs(v.v[k])

(* The first available of the detail's and the summary's value of the      *)
(* property f, else dflt.                                                  *)
DetailElseSummary(f, dflt) ==
    IF Available(DetailField(normD, f)) THEN DetailField(normD, f)
    ELSE IF Available(normS[f]) THEN normS[f]
    ELSE dflt

(* C21: itemWebUrl is the detail record's URL when that is available, else *)
(* the summary's URL, else the item URL made from the legacy item id of    *)
(* the detail, else of the summary, else the search URL made from the      *)
(* resolved title; it is never null and never blank.                       *)
Thm_C21_ItemWebUrlFallbackOrder ==
    normDone =>
        LET legacy == DetailElseSummary("legacyItemId", NULL)
            title == DetailElseSummary("title", Str(<<"Untitled", " ", "listing">>))
            expected ==
                IF Available(DetailField(normD, "itemWebUrl"))
                THEN DetailField(normD, "itemWebUrl")
                ELSE IF Available(normS.itemWebUrl) THEN normS.itemWebUrl
                ELSE IF legacy # NULL
                THEN Str(<<"https://www.ebay.com/itm/">> \o legacy.v)
                ELSE Str(<<"https://www.ebay.com/sch/i.html?_nkw=">>
                         \o encodeURIComponent(title.v))
        IN /\ normItem.itemWebUrl = expected
           /\ Available(normItem.itemWebUrl)

(* C21 witness: the detail's URL is blank, the summary's is null, neither  *)
(* record has a legacy item id, and the URL is the search for the          *)
(* summary's title.                                                        *)
Wit_C21_SearchByTitleLastResort ==
    /\ normDone
    /\ normD # NULL
    /\ DetailField(normD, "itemWebUrl") = Str(<<" ">>)
    /\ normS.itemWebUrl = NULL
    /\ ~Available(DetailField(normD, "title"))
    /\ normItem.itemWebUrl =
          Str(<<"https://www.ebay.com/sch/i.html?_nkw=", "s", "%20", "t">>)

(* Some call of fn has thrown.                                             *)
SomeFnThrew == \E k \in 1..Len(outcomes) : outcomes[k] = "throw"

(* The indices are claimed one by one in order: fn has been invoked once   *)
(* for each index below idx and not at all for the others, no two workers  *)
(* hold the same index, and a resolved promise means fn was invoked for    *)
(* every index and every slot of out is filled.                            *)
ClaimedOnceInOrder ==
    /\ \A k \in 1..Len(started) : started[k] = IF k <= idx THEN 1 ELSE 0
    /\ \A v, w \in DOMAIN wk :
          (v # w /\ wk[v].pc = "await" /\ wk[w].pc = "await") => wk[v].i # wk[w].i
    /\ mpc = "resolved" =>
          /\ idx = Len(arr)
          /\ \A k \in 1..Len(arr) : started[k] = 1 /\ out[k] # Unset

(* All of fn's calls were made, once each.                                 *)
InvokedOnceForEveryIndex == \A k \in 1..Len(arr) : started[k] = 1

Thm_C23_FailedCallKeepsCache ==
    [][\A c \in Callers :
          (\/ tcall[c].pc # "threw" /\ tcall'[c].pc = "threw"
           \/ tcall[c].pc = "idle" /\ tcall'[c].pc # "idle") =>
              /\ tokenCache' = tokenCache
              /\ cachedToken' = cachedToken
              /\ cachedTokenExpiresAt' = cachedTokenExpiresAt]_vars

(* C23 witness: a refresh has failed on a non-success OAuth response while *)
(* the cache holds a token that has not expired.                           *)
Wit_C23_RefreshFailedTokenKept ==
    \E c \in Callers :
        /\ tcall[c].pc = "threw"
        /\ tcall[c].resp = "notok"
        /\ CredTok # 0
        /\ CredExp > nowMs

(* The summaries of the batch that carry an itemId.                        *)
WithItemId == {k \in 1..Len(summaries) : summaries[k].itemId # 0}

(* C24: the detail fetches are those of the itemIds of the summary batch,  *)
(* one for each summary that has an itemId and none for a summary without  *)
(* one; and in the returned list an item is either made from its summary   *)
(* alone or merged with the detail record of its own summary's itemId,     *)
(* which a fetch for that itemId delivered, whatever the order in which    *)
(* the fetches completed.                                                  *)
Thm_C24_MergedWithOwnDetailOnly ==
    caller = "searchEbayEnriched" =>
        /\ Len(arr) = Cardinality(WithItemId)
        /\ \A j \in 1..Len(arr) :
              arr[j] # 0 /\ \E k \in WithItemId : summaries[k].itemId = arr[j]
        /\ \A j \in 1..Len(out) : out[j] # Unset => out[j].rid = arr[j]
        /\ epc = "returned" =>
              \A k \in 1..Len(summaries) :
                  LET id == summaries[k].itemId
                  IN /\ id = 0 => items[k].d = NULL
                     /\ items[k].d # NULL =>
                           /\ items[k].d = DetailOf(id)
                           /\ \E j \in 1..Len(arr) : arr[j] = id /\ outcomes[j] = "detail"
                           /\ ReturnedItems[k] = MergedItem[summaries[k].rec][id][id]
                     /\ items[k].d = NULL =>
                           ReturnedItems[k] = SummaryOnly(summaries[k])

(* C24 witness: three summaries, the first without an itemId; two fetches, *)
(* of which the one started first completed last; the items of the second  *)
(* and third summary are merged each with its own detail record.           *)
Wit_C24_OutOfOrderOwnDetails ==
    /\ epc = "returned"
    /\ Len(summaries) = 3
    /\ summaries[1].itemId = 0
    /\ Len(arr) = 2
    /\ lastSettled = 0
    /\ items[1].d = NULL
    /\ items[2].d = DetailOf(summaries[2].itemId)
    /\ items[3].d = DetailOf(summaries[3].itemId)
    /\ summaries[2].itemId # summaries[3].itemId

====
